---- MODULE Spec2Model ----
(***************************************************************************)
(* Model of tsc-multi's path/specifier rewriting engine:                   *)
(*   - src/src/worker/worker.ts : path policy and the ts.System adapter    *)
(*   - src/unnamed/part_000     : the declaration import rewriter          *)
(*                                                                         *)
(* Strings are sequences of one-character strings, so that endsWith,       *)
(* trimSuffix, extname and concatenation are computed character by         *)
(* character.  The comment marker "//# sourceMappingURL=" is one element.  *)
(***************************************************************************)
EXTENDS Integers, Sequences, FiniteSets, TLC

VARIABLES
  extname,      \* this.data.extname      (worker.ts:32, WorkerOptions)
  dtsExtName,   \* this.data.dtsExtName
  files,        \* underlying ts.System: path -> data of the files it holds
  unreadable,   \* paths the underlying readFile answers undefined for
  ret,          \* the last adapter call: arguments, result, underlying calls
  written,      \* history: original path -> what the adapter wrote for it
  nops,         \* number of adapter calls made so far
  pin,          \* path policy: the input path
  pout,         \* path policy: the results of the successive applications
  dirs,         \* directories of the disk, as sequences of path segments
  resolveJsonModule,  \* ctx.getCompilerOptions().resolveJsonModule
  sin,          \* specifier rewriting: the input node
  sout,         \* results of successive updateModuleSpecifier applications
  hout,         \* result of the type-position branch on the input node
  recentNodes,  \* the visitor's window: kinds of the last visited nodes
  tin,          \* the source files transformed in this context, in order
  tout,         \* the transform's result for each of them
  targets,      \* build: worker -> its target (this.data of that worker)
  project,      \* build: options of the project's config file
  pc,           \* build: worker -> where its build stands
  buildInfo,    \* build: worker -> the metadata path its build uses
  meta,         \* build: metadata path -> the worker that wrote the file
  readFrom      \* build: worker -> writer of the metadata it last read

\* the target configuration and the environment: no action changes them
cfgVars == <<extname, dtsExtName, dirs, resolveJsonModule>>
adapterVars == <<files, unreadable, ret, written, nops>>
pathVars == <<pin, pout>>
rewriterVars == <<sin, sout, hout>>
treeVars == <<recentNodes, tin, tout>>
buildVars == <<targets, project, pc, buildInfo, meta, readFrom>>
vars == <<cfgVars, adapterVars, pathVars, rewriterVars, treeVars, buildVars>>

\* what the actions of one component leave alone
notAdapter == <<cfgVars, pathVars, rewriterVars, treeVars, buildVars>>
notPath == <<cfgVars, adapterVars, rewriterVars, treeVars, buildVars>>
notRewriter == <<cfgVars, adapterVars, pathVars, treeVars, buildVars>>
notTree == <<cfgVars, adapterVars, pathVars, rewriterVars, buildVars>>
notBuild == <<cfgVars, adapterVars, pathVars, rewriterVars, treeVars>>

----------------------------------------------------------------------------
(* Strings *)

\* undefined, as a value distinct from every string
UNDEF == <<"undefined">>

\* !x for x : string | undefined
Falsy(x) == x = UNDEF \/ x = <<>>

\* String.prototype.endsWith
EndsWith(s, suf) ==
  /\ Len(suf) <= Len(s)
  /\ SubSeq(s, Len(s) - Len(suf) + 1, Len(s)) = suf

\* String.prototype.startsWith
StartsWith(s, pre) ==
  /\ Len(pre) <= Len(s)
  /\ SubSeq(s, 1, Len(pre)) = pre

\* utils.trimSuffix: the input without the suffix when it ends with it
trimSuffix(input, suffix) ==
  IF EndsWith(input, suffix)
    THEN SubSeq(input, 1, Len(input) - Len(suffix))
    ELSE input

JS_EXT == <<".", "j", "s">>
MAP_EXT == <<".", "m", "a", "p">>
JS_MAP_EXT == JS_EXT \o MAP_EXT
DTS_EXT == <<".", "d", ".", "t", "s">>
DTS_MAP_EXT == DTS_EXT \o MAP_EXT

----------------------------------------------------------------------------
(* Path policy (worker.ts:59-107) *)

\* a slip of getJSPath: only undefined counts as unset, the empty string does not
getJSPathStrictUndefined(path) ==
  IF extname = UNDEF THEN path ELSE trimSuffix(path, JS_EXT) \o extname

getJSPath(path) ==
  IF Falsy(extname) THEN path ELSE trimSuffix(path, JS_EXT) \o extname

getDtsPath(path) ==
  IF Falsy(dtsExtName) THEN path ELSE trimSuffix(path, DTS_EXT) \o dtsExtName

\* a slip of getJSMapPath: only ".map" is trimmed before the extension is added
getJSMapPathKeepsJs(path) ==
  IF Falsy(extname) THEN path
  ELSE trimSuffix(path, MAP_EXT) \o extname \o MAP_EXT

getJSMapPath(path) ==
  IF Falsy(extname) THEN path
  ELSE trimSuffix(path, JS_MAP_EXT) \o extname \o MAP_EXT

getDtsMapPath(path) ==
  IF Falsy(dtsExtName) THEN path
  ELSE trimSuffix(path, DTS_MAP_EXT) \o dtsExtName \o MAP_EXT

rewritePath(path, ignoreDts) ==
  IF EndsWith(path, JS_EXT) THEN getJSPath(path)
  ELSE IF EndsWith(path, JS_MAP_EXT) THEN getJSMapPath(path)
  ELSE IF ~ignoreDts /\ EndsWith(path, DTS_EXT) THEN getDtsPath(path)
  ELSE IF ~ignoreDts /\ EndsWith(path, DTS_MAP_EXT) THEN getDtsMapPath(path)
  ELSE path

----------------------------------------------------------------------------
(* File contents.  A file's data is a string; it is modelled by what the   *)
(* two content patches can see of it:                                      *)
(*   Text(lines)      lines of characters (no line is JSON)                *)
(*   Json(ws, fields) the text of a JSON object: its members in order      *)
(*                    (duplicate keys allowed), ws = written with          *)
(*                    whitespace between tokens                            *)
(*   BadJson          text that JSON.parse rejects and that holds no       *)
(*                    sourceMappingURL comment                             *)

URL == "//# sourceMappingURL="

Text(lines) == [t |-> "text", lines |-> lines]
Json(ws, fields) == [t |-> "json", ws |-> ws, fields |-> fields]
BadJson == [t |-> "bad"]
Undefined == [t |-> "undefined"]

\* indices of the comment markers that have at least one character after them
MarkerAt(line) == {i \in 1..(Len(line) - 1) : line[i] = URL}

Min(S) == CHOOSE x \in S : \A y \in S : x <= y

\* data.replace(/\/\/# sourceMappingURL=(.+)/g, ...) on one line: (.+) runs to
\* the end of the line, so only the first marker of a line is matched
rewriteLine(line) ==
  IF MarkerAt(line) = {} THEN line
  ELSE LET i == Min(MarkerAt(line))
       IN SubSeq(line, 1, i) \o rewritePath(SubSeq(line, i + 1, Len(line)), FALSE)

rewriteSourceMappingURL(data) ==
  IF data.t = "text"
    THEN Text([i \in 1..Len(data.lines) |-> rewriteLine(data.lines[i])])
    ELSE data

\* JSON.parse of an object text: members keep the position of the first
\* occurrence of their key and the value of the last
ParseMembers(fields) ==
  LET n == Len(fields)
      first(i) == \A j \in 1..(i - 1) : fields[j].k # fields[i].k
      lastOf(k) == CHOOSE j \in 1..n :
                     /\ fields[j].k = k
                     /\ \A h \in (j + 1)..n : fields[h].k # k
      F[i \in 0..n] ==
        IF i = 0 THEN <<>>
        ELSE IF first(i)
          THEN Append(F[i - 1], [k |-> fields[i].k, v |-> fields[lastOf(fields[i].k)].v])
          ELSE F[i - 1]
  IN F[n]

JSONparse(data) ==
  IF data.t = "json" THEN [ok |-> TRUE, obj |-> ParseMembers(data.fields)]
  ELSE [ok |-> FALSE, obj |-> <<>>]

JSONstringify(obj) == Json(FALSE, obj)

HasKey(obj, key) == \E i \in 1..Len(obj) : obj[i].k = key

Get(obj, key) == obj[CHOOSE i \in 1..Len(obj) : obj[i].k = key].v

\* obj[key] = val on an object that has the key
Put(obj, key, val) ==
  [i \in 1..Len(obj) |-> IF obj[i].k = key THEN [k |-> key, v |-> val] ELSE obj[i]]

\* a slip of rewriteSourceMap: the payload is passed through unparsed when no
\* extension is configured
rewriteSourceMapSkipsParse(data) ==
  LET parsed == JSONparse(data)
  IN IF Falsy(extname) /\ Falsy(dtsExtName) THEN [threw |-> FALSE, data |-> data]
     ELSE IF ~parsed.ok THEN [threw |-> TRUE, data |-> data]
     ELSE IF ~HasKey(parsed.obj, "file") THEN [threw |-> TRUE, data |-> data]
     ELSE [threw |-> FALSE,
           data |-> JSONstringify(
                      Put(parsed.obj, "file", rewritePath(Get(parsed.obj, "file"), FALSE)))]

\* worker.ts:118-125.  JSON.parse throws on malformed text; rewritePath throws
\* a TypeError when json.file is undefined.
rewriteSourceMap(data) ==
  LET parsed == JSONparse(data)
  IN IF ~parsed.ok THEN [threw |-> TRUE, data |-> data]
     ELSE IF ~HasKey(parsed.obj, "file") THEN [threw |-> TRUE, data |-> data]
     ELSE [threw |-> FALSE,
           data |-> JSONstringify(
                      Put(parsed.obj, "file", rewritePath(Get(parsed.obj, "file"), FALSE)))]

----------------------------------------------------------------------------
(* The underlying ts.System (sys) and the adapter (worker.ts:127-205) *)

sysFileExists(path) == path \in DOMAIN files

sysReadFile(path) ==
  IF path \in DOMAIN files /\ path \notin unreadable THEN files[path] ELSE Undefined

Call(fn, path, data) == [fn |-> fn, path |-> path, data |-> data]

\* a slip of getReadPaths: declaration paths are rewritten on reads too
getReadPathsRewritesDts(path) ==
  <<rewritePath(path, FALSE)>> \o (IF EndsWith(path, JS_EXT) THEN <<path>> ELSE <<>>)

\* a slip of getReadPaths: the original .js path is tried before the
\* rewritten one
getReadPathsOriginalFirst(path) ==
  (IF EndsWith(path, JS_EXT) THEN <<path>> ELSE <<>>) \o <<rewritePath(path, TRUE)>>

getReadPaths(path) ==
  <<rewritePath(path, TRUE)>> \o (IF EndsWith(path, JS_EXT) THEN <<path>> ELSE <<>>)

\* index of the first candidate among those the underlying call accepts, 0
\* when there is none
FirstHit(paths, accepted) ==
  IF \E i \in 1..Len(paths) : paths[i] \in accepted
    THEN Min({i \in 1..Len(paths) : paths[i] \in accepted})
    ELSE 0

\* the candidates a short-circuiting reduce hands to the underlying system
Tried(paths, hit) == SubSeq(paths, 1, IF hit = 0 THEN Len(paths) ELSE hit)

\* reduce((result, path) => result || sys.fileExists(path), false)
fileExistsResult(inputPath) ==
  LET paths == getReadPaths(inputPath)
      hit == FirstHit(paths, {q \in DOMAIN files : sysFileExists(q)})
      tried == Tried(paths, hit)
  IN [value |-> hit # 0,
      calls |-> [i \in 1..Len(tried) |-> Call("fileExists", tried[i], Undefined)]]

\* reduce((result, path) => result ?? sys.readFile(path), null) ?? undefined
readFileResult(inputPath) ==
  LET paths == getReadPaths(inputPath)
      hit == FirstHit(paths, {q \in DOMAIN files : sysReadFile(q) # Undefined})
      tried == Tried(paths, hit)
  IN [value |-> IF hit = 0 THEN Undefined ELSE sysReadFile(paths[hit]),
      calls |-> [i \in 1..Len(tried) |-> Call("readFile", tried[i], Undefined)]]

\* the newData closure of writeFile (worker.ts:184-194)
newDataOf(path, data) ==
  IF EndsWith(path, JS_EXT) \/ EndsWith(path, DTS_EXT)
    THEN [threw |-> FALSE, data |-> rewriteSourceMappingURL(data)]
  ELSE IF EndsWith(path, JS_MAP_EXT) \/ EndsWith(path, DTS_MAP_EXT)
    THEN rewriteSourceMap(data)
  ELSE [threw |-> FALSE, data |-> data]

Ret(op, path, data, threw, value, calls) ==
  [op |-> op, path |-> path, data |-> data, threw |-> threw, value |-> value,
   calls |-> calls]

Without(f, path) == [q \in DOMAIN f \ {path} |-> f[q]]

With(f, path, val) == [q \in DOMAIN f \cup {path} |-> IF q = path THEN val ELSE f[q]]

MaxOps == 2

fileExists(inputPath) ==
  /\ nops < MaxOps
  /\ nops' = nops + 1
  /\ ret' = Ret("fileExists", inputPath, Undefined, FALSE,
                fileExistsResult(inputPath).value, fileExistsResult(inputPath).calls)
  /\ UNCHANGED <<files, unreadable, written, notAdapter>>

readFile(inputPath) ==
  /\ nops < MaxOps
  /\ nops' = nops + 1
  /\ ret' = Ret("readFile", inputPath, Undefined, FALSE,
                readFileResult(inputPath).value, readFileResult(inputPath).calls)
  /\ UNCHANGED <<files, unreadable, written, notAdapter>>

writeFile(path, data) ==
  LET newPath == rewritePath(path, FALSE)
      newData == newDataOf(path, data)
  IN /\ nops < MaxOps
     /\ nops' = nops + 1
     /\ IF newData.threw
          THEN /\ ret' = Ret("writeFile", path, data, TRUE, Undefined, <<>>)
               /\ UNCHANGED <<files, unreadable, written>>
          ELSE /\ files' = With(files, newPath, newData.data)
               /\ unreadable' = unreadable \ {newPath}
               /\ written' = With(written, path,
                                  [newPath |-> newPath, newData |-> newData.data,
                                   data |-> data])
               /\ ret' = Ret("writeFile", path, data, FALSE, Undefined,
                             <<Call("writeFile", newPath, newData.data)>>)
     /\ UNCHANGED notAdapter

deleteFile(path) ==
  LET newPath == rewritePath(path, FALSE)
  IN /\ nops < MaxOps
     /\ nops' = nops + 1
     /\ files' = Without(files, newPath)
     /\ unreadable' = unreadable \ {newPath}
     /\ ret' = Ret("deleteFile", path, Undefined, FALSE, Undefined,
                   <<Call("deleteFile", newPath, Undefined)>>)
     /\ UNCHANGED <<written, notAdapter>>

----------------------------------------------------------------------------
(* Inputs of the adapter specification *)

Basename(path) ==
  LET slashes == {i \in 1..Len(path) : path[i] = "/"}
  IN IF slashes = {} THEN path
     ELSE SubSeq(path, (CHOOSE i \in slashes : \A j \in slashes : j <= i) + 1, Len(path))

MJS == <<".", "m", "j", "s">>
ESM_JS == <<".", "e", "s", "m", ".", "j", "s">>
D_MTS == <<".", "d", ".", "m", "t", "s">>
TS_EXT == <<".", "t", "s">>

ExtNames == {UNDEF, MJS, ESM_JS}
DtsExtNames == {UNDEF, D_MTS}

Stems == {<<"a">>, <<"d", "/", "b", ".", "j", "s">>}
Suffixes == {JS_EXT, JS_MAP_EXT, DTS_EXT, DTS_MAP_EXT, TS_EXT}
Paths == {stem \o suf : stem \in Stems, suf \in Suffixes}

Code == <<"c", "o", "d", "e">>

\* what the compiler emits for an output path: a script or declaration with
\* or without the comment naming its map, a map naming its file, and the
\* malformed payloads
DataFor(path) ==
  IF EndsWith(path, JS_EXT) \/ EndsWith(path, DTS_EXT)
    THEN {Text(<<Code, <<URL>> \o Basename(path) \o MAP_EXT>>), Text(<<Code>>)}
  ELSE IF EndsWith(path, MAP_EXT)
    THEN {Json(TRUE, <<[k |-> "version", v |-> <<"3">>],
                       [k |-> "file", v |-> trimSuffix(Basename(path), MAP_EXT)],
                       [k |-> "mappings", v |-> <<"A", "A">>]>>),
          BadJson}
  ELSE {Text(<<Code>>)}

AJs == <<"a", ".", "j", "s">>
AMjs == <<"a", ".", "m", "j", "s">>

\* initial disks: nothing, a .js source, an earlier .mjs output, or both
InitialFiles ==
  {<<>>,
   (AJs :> Text(<<<<"s", "r", "c">>>>)),
   (AMjs :> Text(<<<<"o", "u", "t">>>>)),
   (AJs :> Text(<<<<"s", "r", "c">>>>)) @@ (AMjs :> Text(<<<<"o", "u", "t">>>>))}

NoRet == Ret("none", <<>>, Undefined, FALSE, Undefined, <<>>)

\* the parts of the state a specification does not use
AdapterIdle ==
  /\ files = <<>>
  /\ unreadable = {}
  /\ ret = NoRet
  /\ written = <<>>
  /\ nops = 0

PathIdle == pin = <<>> /\ pout = <<>>

EnvIdle == dirs = {} /\ resolveJsonModule = FALSE

RewriterIdle ==
  /\ sin = Undefined
  /\ sout = <<>>
  /\ hout = Undefined

TreeIdle ==
  /\ recentNodes = <<>>
  /\ tin = <<>>
  /\ tout = <<>>

BuildIdle ==
  /\ targets = <<>>
  /\ project = <<>>
  /\ pc = <<>>
  /\ buildInfo = <<>>
  /\ meta = <<>>
  /\ readFrom = <<>>

Init ==
  /\ extname \in ExtNames
  /\ dtsExtName \in DtsExtNames
  /\ files \in InitialFiles
  /\ unreadable \in SUBSET (DOMAIN files)
  /\ ret = NoRet
  /\ written = <<>>
  /\ nops = 0
  /\ EnvIdle
  /\ PathIdle
  /\ RewriterIdle
  /\ TreeIdle
  /\ BuildIdle

Next ==
  \/ \E p \in Paths : fileExists(p)
  \/ \E p \in Paths : readFile(p)
  \/ \E p \in Paths : \E d \in DataFor(p) : writeFile(p, d)
  \/ \E p \in Paths : deleteFile(p)

Spec == Init /\ [][Next]_vars

----------------------------------------------------------------------------
(* Claims about the adapter *)

IsScriptOrDts(path) == EndsWith(path, JS_EXT) \/ EndsWith(path, DTS_EXT)

IsMapPath(path) == EndsWith(path, JS_MAP_EXT) \/ EndsWith(path, DTS_MAP_EXT)

OtherMembers(fields) == SelectSeq(ParseMembers(fields), LAMBDA m : m.k # "file")

\* F and its sibling map M were both written through the adapter, F carrying
\* the comment that names M and M a "file" member that names F
WrittenPair(f) ==
  LET m == f \o MAP_EXT
  IN /\ IsScriptOrDts(f)
     /\ f \in DOMAIN written
     /\ m \in DOMAIN written
     /\ written[f].data.t = "text"
     /\ \E i \in 1..Len(written[f].data.lines) :
          written[f].data.lines[i] = <<URL>> \o Basename(m)
     /\ written[m].data.t = "json"
     /\ HasKey(ParseMembers(written[m].data.fields), "file")
     /\ Get(ParseMembers(written[m].data.fields), "file") = Basename(f)

\* C1: when a script or declaration file F and its map M are both written
\* through the adapter, the sourceMappingURL stored in F names the path M
\* landed at, the "file" member stored in M names the path F landed at, and
\* every other member of the map is unchanged; with extname ".mjs", a.js gets
\* the URL a.mjs.map and its map the file a.mjs.
C1_CrossReferencesAgree ==
  \A f \in DOMAIN written :
    WrittenPair(f) =>
      LET m == f \o MAP_EXT
          F == written[f]
          M == written[m]
      IN /\ F.newData.t = "text"
         /\ Len(F.newData.lines) = Len(F.data.lines)
         /\ \A i \in 1..Len(F.data.lines) :
              IF F.data.lines[i] = <<URL>> \o Basename(m)
                THEN F.newData.lines[i] = <<URL>> \o Basename(M.newPath)
                ELSE F.newData.lines[i] = F.data.lines[i]
         /\ M.newData.t = "json"
         /\ Get(ParseMembers(M.newData.fields), "file") = Basename(F.newPath)
         /\ OtherMembers(M.newData.fields) = OtherMembers(M.data.fields)
         /\ (extname = MJS /\ f = AJs) =>
              /\ Get(ParseMembers(M.newData.fields), "file") = AMjs
              /\ F.newData.lines[2] = <<URL>> \o AMjs \o MAP_EXT

\* C1 witness: under a configured script extension, a script
\* below a directory and its map have both been written
C1_Witness ==
  /\ ~Falsy(extname)
  /\ \E f \in DOMAIN written :
       /\ WrittenPair(f)
       /\ EndsWith(f, JS_EXT)
       /\ Basename(f) # f
       /\ written[f].newPath # f
       /\ written[f \o MAP_EXT].newPath # f \o MAP_EXT

\* the candidate list the claim states for exists(p) and read(p)
Candidates(p) ==
  <<rewritePath(p, TRUE)>> \o (IF EndsWith(p, JS_EXT) THEN <<p>> ELSE <<>>)

CanRead(q) == q \in DOMAIN files /\ q \notin unreadable

\* C5: exists(p) and read(p) try rewritePath(p, ignoreDts = true) and then,
\* only for p ending in .js, p itself; exists is true iff the underlying system
\* has a candidate; read returns the first readable candidate's content (the
\* rewritten one wins) and undefined when none is readable; for a path ending
\* in .d.ts or .d.ts.map the only candidate is p itself.
C5_ReadCandidates ==
  LET p == ret.path
      c == Candidates(p)
      tried == [i \in 1..Len(ret.calls) |-> ret.calls[i].path]
  IN /\ ret.op \in {"fileExists", "readFile"} =>
          /\ Len(tried) >= 1 /\ Len(tried) <= Len(c)
          /\ tried = SubSeq(c, 1, Len(tried))
          /\ \A i \in 1..Len(tried) : ret.calls[i].fn = ret.op
          /\ (EndsWith(p, DTS_EXT) \/ EndsWith(p, DTS_MAP_EXT)) => tried = <<p>>
     /\ ret.op = "fileExists" =>
          ret.value = (\E i \in 1..Len(c) : c[i] \in DOMAIN files)
     /\ ret.op = "readFile" =>
          /\ (\A i \in 1..Len(c) : ~CanRead(c[i])) => ret.value = Undefined
          /\ \A i \in 1..Len(c) :
               (CanRead(c[i]) /\ \A j \in 1..(i - 1) : ~CanRead(c[j]))
                 => ret.value = files[c[i]]

\* C5 witness: a read of a .js path found the rewritten and the original file
\* both readable and returned the rewritten one's content
C5_Witness ==
  /\ ret.op = "readFile"
  /\ EndsWith(ret.path, JS_EXT)
  /\ rewritePath(ret.path, TRUE) # ret.path
  /\ CanRead(rewritePath(ret.path, TRUE))
  /\ CanRead(ret.path)
  /\ files[ret.path] # files[rewritePath(ret.path, TRUE)]
  /\ ret.value = files[rewritePath(ret.path, TRUE)]
  /\ ~Falsy(dtsExtName)

\* C10: a write to a path ending in .js.map or .d.ts.map whose content is not
\* well-formed JSON throws, makes no call to the underlying system and leaves
\* the file system as it was, under every target configuration.
C10_MalformedMapWriteFails ==
  [][(/\ ret'.op = "writeFile"
      /\ IsMapPath(ret'.path)
      /\ ret'.data.t # "json")
       => (/\ ret'.threw
           /\ ret'.calls = <<>>
           /\ files' = files
           /\ unreadable' = unreadable)]_vars

\* C10 witness: such a write has thrown with no extension configured
C10_Witness ==
  /\ ret.op = "writeFile"
  /\ IsMapPath(ret.path)
  /\ ret.data = BadJson
  /\ ret.threw
  /\ Falsy(extname)
  /\ Falsy(dtsExtName)

\* a path of one of the four output roles
IsOutputPath(path) == IsScriptOrDts(path) \/ IsMapPath(path)

\* a script or script-map path
IsScriptRole(path) == EndsWith(path, JS_EXT) \/ EndsWith(path, JS_MAP_EXT)

\* the step after a successful writeFile(p, content), when p is covered and
\* the step is fileExists(p) or readFile(p): fileExists answers true and
\* readFile answers the content writeFile handed to the underlying system
ReadsBack(covered) ==
  (/\ ret.op = "writeFile"
   /\ ~ret.threw
   /\ covered
   /\ ret'.op \in {"fileExists", "readFile"}
   /\ ret'.path = ret.path)
    => /\ ret'.op = "fileExists" => ret'.value = TRUE
       /\ ret'.op = "readFile" => ret'.value = written[ret.path].newData

\* C11 as stated: for every configuration and every output path p of any of
\* the four roles, after writeFile(p, content) succeeds, fileExists(p) is
\* true and readFile(p) returns the stored content, whatever the disk held
\* and whatever adapter calls came before.
C11_AsStated == [][ReadsBack(IsOutputPath(ret.path))]_vars

\* C11 amended: the same for script and script-map paths under every
\* configuration, and for declaration and declaration-map paths only when no
\* declaration extension is configured (reads never rewrite declaration
\* paths, writes do).
C11_WriteThenRead ==
  [][ReadsBack(/\ IsOutputPath(ret.path)
               /\ (IsScriptRole(ret.path) \/ Falsy(dtsExtName)))]_vars

\* C11 witness: with extname .mjs and a source a.js on disk, a.js was
\* written and then read back as the patched content that landed at a.mjs
C11_Witness ==
  /\ nops >= 2
  /\ extname = MJS
  /\ AJs \in DOMAIN files
  /\ ret.op = "readFile"
  /\ ret.path = AJs
  /\ AJs \in DOMAIN written
  /\ written[AJs].newPath = AMjs
  /\ ret.value = written[AJs].newData
  /\ ret.value # files[AJs]

----------------------------------------------------------------------------
(* The path policy as a pure function: rewritePath applied repeatedly to   *)
(* one input path under one target configuration                           *)

CJS == <<".", "c", "j", "s">>

PathExtNames == {UNDEF, <<>>, MJS, CJS, JS_EXT, ESM_JS}
PathDtsExtNames == {UNDEF, D_MTS}

PathStems == Stems \cup {<<"a", ".", "d">>}
PathInputs == {stem \o suf : stem \in PathStems, suf \in Suffixes}

MaxApply == 2

PathInit ==
  /\ extname \in PathExtNames
  /\ dtsExtName \in PathDtsExtNames
  /\ pin \in PathInputs
  /\ pout = <<>>
  /\ EnvIdle
  /\ AdapterIdle
  /\ RewriterIdle
  /\ TreeIdle
  /\ BuildIdle

\* one more application of rewritePath (ignoreDts = false) to the last result
applyRewritePath ==
  /\ Len(pout) < MaxApply
  /\ pout' = Append(pout, rewritePath(IF pout = <<>> THEN pin ELSE pout[Len(pout)], FALSE))
  /\ UNCHANGED <<pin, notPath>>

PathNext == applyRewritePath

PathSpec == PathInit /\ [][PathNext]_vars

EndsInRoleSuffix(path) ==
  \/ EndsWith(path, JS_EXT)
  \/ EndsWith(path, JS_MAP_EXT)
  \/ EndsWith(path, DTS_EXT)
  \/ EndsWith(path, DTS_MAP_EXT)

\* C2 as stated: for every path p ending in .js and every script extension e,
\* rewritePath(p) ends in e when e is set and equals p when e is unset, and
\* rewritePath(rewritePath(p)) = rewritePath(p).
C2_AsStated ==
  (EndsWith(pin, JS_EXT) /\ Len(pout) >= 1) =>
    /\ ~Falsy(extname) => EndsWith(pout[1], extname)
    /\ Falsy(extname) => pout[1] = pin
    /\ \A i \in 2..Len(pout) : pout[i] = pout[1]

\* C2 amended: the first two parts as stated; a further application changes
\* nothing when e is unset, when e is ".js", or when rewritePath(p) ends in
\* none of .js, .js.map, .d.ts, .d.ts.map.
C2_RewriteOfScriptPath ==
  (EndsWith(pin, JS_EXT) /\ Len(pout) >= 1) =>
    /\ ~Falsy(extname) => EndsWith(pout[1], extname)
    /\ Falsy(extname) => pout[1] = pin
    /\ (Falsy(extname) \/ extname = JS_EXT \/ ~EndsInRoleSuffix(pout[1]))
         => \A i \in 2..Len(pout) : pout[i] = pout[1]

\* C2 witness: a .js path was rewritten to another path and the second
\* application left that path alone
C2_Witness ==
  /\ EndsWith(pin, JS_EXT)
  /\ Len(pout) >= 2
  /\ extname = MJS
  /\ pout[1] # pin
  /\ pout[2] = pout[1]

----------------------------------------------------------------------------
(* The declaration import rewriter (part_000): module specifiers *)

JSON_EXT == <<".", "j", "s", "o", "n">>

\* a slip of the options: the declaration extension is handed over as extname
optionsExtnameFromDts == IF Falsy(dtsExtName) THEN DTS_EXT ELSE dtsExtName

\* the options the worker hands to the transformer (worker.ts:266-271)
optionsExtname == IF Falsy(extname) THEN JS_EXT ELSE extname

optionsDtsExtName == IF Falsy(dtsExtName) THEN DTS_EXT ELSE dtsExtName

isRelativePath(path) ==
  StartsWith(path, <<".", "/">>) \/ StartsWith(path, <<".", ".", "/">>)

\* path without its trailing slashes
StripSlashes(path) ==
  LET keep == {i \in 1..Len(path) : path[i] # "/"}
  IN IF keep = {} THEN <<>>
     ELSE SubSeq(path, 1, CHOOSE i \in keep : \A j \in keep : j <= i)

\* path.extname (posix): from the last dot of the last component, empty when
\* there is no dot, when the dot is the component's first character, or when
\* the component is ".."
pathExtname(path) ==
  LET base == Basename(StripSlashes(path))
      dots == {i \in 1..Len(base) : base[i] = "."}
      startDot == CHOOSE i \in dots : \A j \in dots : j <= i
  IN IF dots = {} THEN <<>>
     ELSE IF startDot = 1 THEN <<>>
     ELSE IF base = <<".", ".">> THEN <<>>
     ELSE SubSeq(base, startDot, Len(base))

RECURSIVE SegmentsFrom(_, _, _, _)
\* the components of path from character i on, after the finished
\* components done and the characters cur of the current one
SegmentsFrom(path, i, done, cur) ==
  IF i > Len(path) THEN Append(done, cur)
  ELSE IF path[i] = "/" THEN SegmentsFrom(path, i + 1, Append(done, cur), <<>>)
  ELSE SegmentsFrom(path, i + 1, done, Append(cur, path[i]))

\* the components of a path, split at "/"
Segments(path) == SegmentsFrom(path, 1, <<>>, <<>>)

RECURSIVE resolveFrom(_, _, _)
\* the directory reached from dir by the components segs[i], segs[i+1], ...:
\* "" and "." are dropped, ".." steps up and stays at the root
resolveFrom(dir, segs, i) ==
  IF i > Len(segs) THEN dir
  ELSE IF segs[i] = <<>> \/ segs[i] = <<".">> THEN resolveFrom(dir, segs, i + 1)
  ELSE IF segs[i] = <<".", ".">>
    THEN resolveFrom(IF dir = <<>> THEN <<>> ELSE SubSeq(dir, 1, Len(dir) - 1), segs, i + 1)
  ELSE resolveFrom(Append(dir, segs[i]), segs, i + 1)

\* path.resolve(from, path) for an absolute directory `from` (a sequence of
\* components) and a relative path
resolve(from, path) == resolveFrom(from, Segments(path), 1)

\* dirname(sourceFile.fileName): the declaration file being transformed is
\* /p/s/a.d.ts
SourceDir == <<<<"p">>, <<"s">>>>

isDirectory(path) == resolve(SourceDir, path) \in dirs

\* a syntax-tree node: its kind, its text (literals and identifiers) and its
\* children in visiting order
Node(kind, text, kids) == [kind |-> kind, text |-> text, kids |-> kids]

\* factory.createStringLiteral
StringLiteral(text) == Node("StringLiteral", text, <<>>)

isStringLiteral(node) == node.kind = "StringLiteral"

\* a slip of updateModuleSpecifier: the JSON exemption is tested before the
\* directory rule
updateModuleSpecifierJsonFirst(node) ==
  IF ~isStringLiteral(node) THEN node
  ELSE IF ~isRelativePath(node.text) THEN node
  ELSE LET ext == pathExtname(node.text)
       IN IF ext = CJS THEN StringLiteral(node.text)
          ELSE IF ext = JSON_EXT /\ resolveJsonModule THEN node
          ELSE IF isDirectory(node.text)
            THEN StringLiteral(node.text \o <<"/", "i", "n", "d", "e", "x">> \o optionsExtname)
          ELSE LET base == IF ext = JS_EXT THEN trimSuffix(node.text, JS_EXT) ELSE node.text
               IN StringLiteral(base \o optionsExtname)

\* a slip of updateModuleSpecifier: an existing .js extension is not stripped
updateModuleSpecifierNoTrim(node) ==
  IF ~isStringLiteral(node) THEN node
  ELSE IF ~isRelativePath(node.text) THEN node
  ELSE LET ext == pathExtname(node.text)
       IN IF ext = CJS THEN StringLiteral(node.text)
          ELSE IF isDirectory(node.text)
            THEN StringLiteral(node.text \o <<"/", "i", "n", "d", "e", "x">> \o optionsExtname)
          ELSE IF ext = JSON_EXT /\ resolveJsonModule THEN node
          ELSE StringLiteral(node.text \o optionsExtname)

\* part_000:35-60
updateModuleSpecifier(node) ==
  IF ~isStringLiteral(node) THEN node
  ELSE IF ~isRelativePath(node.text) THEN node
  ELSE LET ext == pathExtname(node.text)
       IN IF ext = CJS THEN StringLiteral(node.text)
          ELSE IF isDirectory(node.text)
            THEN StringLiteral(node.text \o <<"/", "i", "n", "d", "e", "x">> \o optionsExtname)
          ELSE IF ext = JSON_EXT /\ resolveJsonModule THEN node
          ELSE LET base == IF ext = JS_EXT THEN trimSuffix(node.text, JS_EXT) ELSE node.text
               IN StringLiteral(base \o optionsExtname)

\* part_000:141-185: what the visitor returns for a string literal whose two
\* previously visited nodes are a mapped type and a template-literal type span
typePositionSpecifier(node) ==
  IF node.text # <<".", ".">> /\ ~isRelativePath(node.text) THEN node
  ELSE LET ext == pathExtname(node.text)
       IN IF ext = JSON_EXT /\ resolveJsonModule THEN node
          ELSE IF isDirectory(node.text)
            THEN StringLiteral(node.text \o <<"/", "i", "n", "d", "e", "x">> \o optionsExtname)
          ELSE LET base == IF ext = JS_EXT THEN trimSuffix(node.text, JS_EXT) ELSE node.text
               IN StringLiteral(base \o optionsExtname)

----------------------------------------------------------------------------
(* Specifier rewriting as a pure function: one specifier node of the       *)
(* declaration file /p/s/a.d.ts, one disk layout, one target configuration *)

D_CTS == <<".", "d", ".", "c", "t", "s">>

\* the declaration transformer is installed only when dtsExtName is set
\* (worker.ts:255)
RewriterExtNames == {UNDEF, MJS, CJS}
RewriterDtsExtNames == {D_MTS, D_CTS}

Foo == <<".", "/", "f", "o", "o">>
DataJson == <<".", "/", "d", "a", "t", "a">> \o JSON_EXT

SpecifierTexts ==
  {Foo, Foo \o JS_EXT, Foo \o CJS, Foo \o MJS, Foo \o <<"/">>, DataJson,
   <<".", "/">> \o JS_EXT, <<".", ".">>, <<".", ".", "/">>, <<".", ".", "/", "f", "o", "o">>,
   <<"f", "o", "o">>, <<"f", "o", "o">> \o JS_EXT}

SpecifierNodes ==
  {StringLiteral(t) : t \in SpecifierTexts}
    \cup {Node("Identifier", <<"f", "o", "o">>, <<>>)}

\* directories that always exist: the root, /p and the source directory /p/s
BaseDirs == {<<>>, <<<<"p">>>>, SourceDir}

\* directories a layout may hold besides
OptionalDirs ==
  {SourceDir \o <<<<"f", "o", "o">>>>,
   SourceDir \o <<<<"f", "o", "o">> \o JS_EXT>>,
   SourceDir \o <<<<"f", "o", "o">> \o CJS>>,
   SourceDir \o <<<<"d", "a", "t", "a">> \o JSON_EXT>>}

RewriterInit ==
  /\ extname \in RewriterExtNames
  /\ dtsExtName \in RewriterDtsExtNames
  /\ dirs \in {BaseDirs \cup X : X \in SUBSET OptionalDirs}
  /\ resolveJsonModule \in BOOLEAN
  /\ sin \in SpecifierNodes
  /\ sout = <<>>
  /\ hout = Undefined
  /\ AdapterIdle
  /\ PathIdle
  /\ TreeIdle
  /\ BuildIdle

\* one more application of updateModuleSpecifier to the last result
applyUpdateModuleSpecifier ==
  /\ Len(sout) < MaxApply
  /\ sout' = Append(sout, updateModuleSpecifier(IF sout = <<>> THEN sin ELSE sout[Len(sout)]))
  /\ UNCHANGED <<sin, hout, notRewriter>>

\* the visitor's type-position branch on the input string literal
applyTypePositionSpecifier ==
  /\ isStringLiteral(sin)
  /\ hout = Undefined
  /\ hout' = typePositionSpecifier(sin)
  /\ UNCHANGED <<sin, sout, notRewriter>>

RewriterNext == applyUpdateModuleSpecifier \/ applyTypePositionSpecifier

RewriterSpec == RewriterInit /\ [][RewriterNext]_vars

Index(ext) == <<"/", "i", "n", "d", "e", "x">> \o ext

\* the five rules in the claim's words; strip says whether rule 5 strips
\* ".js" from this node's text
RuleOf(node, strip) ==
  IF ~isStringLiteral(node) THEN node
  ELSE IF ~isRelativePath(node.text) THEN node
  ELSE IF pathExtname(node.text) = CJS THEN node
  ELSE IF resolve(SourceDir, node.text) \in dirs
    THEN StringLiteral(node.text \o Index(optionsExtname))
  ELSE IF pathExtname(node.text) = JSON_EXT /\ resolveJsonModule THEN node
  ELSE IF strip
    THEN StringLiteral(SubSeq(node.text, 1, Len(node.text) - 3) \o optionsExtname)
  ELSE StringLiteral(node.text \o optionsExtname)

HasTrailingJs(text) == EndsWith(text, JS_EXT)

HasJsExtension(text) == pathExtname(text) = JS_EXT /\ EndsWith(text, JS_EXT)

ExamplesOfC3 ==
  (extname = MJS /\ Len(sout) >= 1) =>
    /\ sin = StringLiteral(Foo \o JS_EXT) /\ SourceDir \o <<<<"f", "o", "o">> \o JS_EXT>> \notin dirs
         => sout[1] = StringLiteral(Foo \o MJS)
    /\ sin = StringLiteral(Foo \o CJS) => sout[1] = sin
    /\ sin = StringLiteral(DataJson) /\ SourceDir \o <<<<"d", "a", "t", "a">> \o JSON_EXT>> \notin dirs
         => sout[1] = IF resolveJsonModule THEN sin ELSE StringLiteral(DataJson \o MJS)

\* C3 as stated: updateModuleSpecifier decides by the first matching rule of
\* (1) not a relative string literal, (2) extension .cjs, (3) directory,
\* (4) .json with resolveJsonModule, (5) otherwise a trailing .js is stripped
\* and the configured extension appended.
C3_AsStated ==
  Len(sout) >= 1 => (sout[1] = RuleOf(sin, HasTrailingJs(sin.text)) /\ ExamplesOfC3)

\* C3 amended: the same five rules in the same order, rule 5 stripping ".js"
\* only when it is the specifier's extension (path.extname), which it is not
\* for a last component that is exactly ".js".
C3_RuleOrder ==
  Len(sout) >= 1 => (sout[1] = RuleOf(sin, HasJsExtension(sin.text)) /\ ExamplesOfC3)

\* C3 witness: a directory named data.json was given the index rule although
\* JSON imports are enabled
C3_Witness ==
  /\ Len(sout) >= 1
  /\ sin = StringLiteral(DataJson)
  /\ resolveJsonModule
  /\ extname = MJS
  /\ sout[1] = StringLiteral(DataJson \o Index(MJS))

IsRelativeLiteral(node) == isStringLiteral(node) /\ isRelativePath(node.text)

\* C4 as stated: for every relative specifier and every configured extension
\* a second run of the rewriter changes nothing.
C4_AsStated ==
  IsRelativeLiteral(sin) => \A i \in 2..Len(sout) : sout[i] = sout[1]

\* C4 amended: a second run changes nothing when the configured extension is
\* ".cjs" or ".js" (the default), the specifier does not end in "/" and, for
\* ".js", the first result does not name a directory; a directory ./foo
\* becomes ./foo/index<ext> and stays so under these extensions.
C4_FixedPoint ==
  (/\ IsRelativeLiteral(sin)
   /\ Len(sout) >= 1
   /\ optionsExtname \in {JS_EXT, CJS}
   /\ ~EndsWith(sin.text, <<"/">>)
   /\ optionsExtname = JS_EXT => resolve(SourceDir, sout[1].text) \notin dirs)
    => /\ \A i \in 2..Len(sout) : sout[i] = sout[1]
       /\ (sin.text = Foo /\ resolve(SourceDir, Foo) \in dirs)
            => sout[1] = StringLiteral(Foo \o Index(optionsExtname))

\* C4 witness: ./foo.js was rewritten to ./foo.cjs and the second run left it
C4_Witness ==
  /\ Len(sout) >= 2
  /\ sin = StringLiteral(Foo \o JS_EXT)
  /\ sout[1] = StringLiteral(Foo \o CJS)
  /\ sout[2] = sout[1]

\* the specifiers the directory rule and the extension rule apply to
RewrittenByUpdate(node) ==
  /\ IsRelativeLiteral(node)
  /\ pathExtname(node.text) # CJS
  /\ ~(pathExtname(node.text) = JSON_EXT /\ resolveJsonModule
         /\ resolve(SourceDir, node.text) \notin dirs)

RewrittenByTypePosition(node) ==
  /\ isStringLiteral(node)
  /\ (node.text = <<".", ".">> \/ isRelativePath(node.text))
  /\ ~(pathExtname(node.text) = JSON_EXT /\ resolveJsonModule)

\* what the two rules give for extension ext
Appended(node, ext) ==
  IF resolve(SourceDir, node.text) \in dirs
    THEN StringLiteral(node.text \o Index(ext))
    ELSE StringLiteral((IF HasJsExtension(node.text)
                          THEN SubSeq(node.text, 1, Len(node.text) - 3)
                          ELSE node.text) \o ext)

AppendsInBothBranches(ext) ==
  /\ (Len(sout) >= 1 /\ RewrittenByUpdate(sin)) => sout[1] = Appended(sin, ext)
  /\ (hout # Undefined /\ RewrittenByTypePosition(sin)) => hout = Appended(sin, ext)

\* C7 as stated: in its ordinary and its type-position branch the declaration
\* rewriter appends the target's declaration extension setting.
C7_AsStated == AppendsInBothBranches(optionsDtsExtName)

\* C7 amended: in both branches the declaration rewriter appends the target's
\* script extension setting (".js" when unset), not its declaration extension.
C7_AppendsScriptExtension ==
  AppendsInBothBranches(IF Falsy(extname) THEN JS_EXT ELSE extname)

\* C7 witness: under extname .mjs and dtsExtName .d.mts both branches have
\* rewritten the file specifier ./foo.js
C7_Witness ==
  /\ extname = MJS
  /\ dtsExtName = D_MTS
  /\ sin = StringLiteral(Foo \o JS_EXT)
  /\ Len(sout) >= 1
  /\ sout[1] = StringLiteral(Foo \o MJS)
  /\ hout = StringLiteral(Foo \o MJS)

\* C8: for every literal text other than "..", every layout and every
\* resolveJsonModule setting the type-position branch returns what
\* updateModuleSpecifier returns.
C8_TypePositionAgrees ==
  (/\ isStringLiteral(sin)
   /\ sin.text # <<".", ".">>
   /\ hout # Undefined
   /\ Len(sout) >= 1)
    => hout = sout[1]

----------------------------------------------------------------------------
(* The declaration import rewriter (part_000:62-229): the visitor *)

\* recentNodes.unshift(node), then pop() when more than 3 are held; the
\* visitor reads only the kinds of the nodes it keeps
Unshift(win, kind) ==
  LET w == <<kind>> \o win
  IN IF Len(w) > 3 THEN SubSeq(w, 1, Len(w) - 1) ELSE w

isCallExpression(node) == node.kind = "CallExpression"

\* node.expression of a call: its first child; node.arguments: the others
isImportCall(node) == isCallExpression(node) /\ node.kids[1].kind = "ImportKeyword"

isRequireCall(node) ==
  /\ isCallExpression(node)
  /\ node.kids[1].kind = "Identifier"
  /\ node.kids[1].text = <<"r", "e", "q", "u", "i", "r", "e">>

\* the window test of part_000:118-140 (kinds 200 and 204 of TypeScript 5.1.6)
isTypePosition(node, win) ==
  /\ Len(win) = 3
  /\ isStringLiteral(node)
  /\ win[2] = "MappedType"
  /\ win[3] = "TemplateLiteralTypeSpan"

\* the node with child i replaced
WithKid(node, i, kid) == Node(node.kind, node.text, [node.kids EXCEPT ![i] = kid])

RECURSIVE visitor(_, _)
RECURSIVE visitEachChild(_, _, _)

\* part_000:67-220; the result is the returned node and the window afterwards
visitor(node, recent) ==
  LET win == Unshift(recent, node.kind)
  IN IF node.kind = "ImportDeclaration"
       THEN [node |-> WithKid(node, 1, updateModuleSpecifier(node.kids[1])), win |-> win]
     ELSE IF node.kind = "ExportDeclaration"
       THEN (IF node.kids = <<>>
               THEN [node |-> node, win |-> win]
               ELSE [node |-> WithKid(node, 1, updateModuleSpecifier(node.kids[1])),
                     win |-> win])
     ELSE IF isTypePosition(node, win)
       THEN [node |-> typePositionSpecifier(node), win |-> win]
     ELSE IF isImportCall(node) \/ isRequireCall(node)
       THEN (IF Len(node.kids) = 1
               THEN [node |-> node, win |-> win]
               ELSE [node |-> WithKid(node, 2, updateModuleSpecifier(node.kids[2])),
                     win |-> win])
     ELSE LET r == visitEachChild(node.kids, 1, win)
          IN [node |-> Node(node.kind, node.text, r.kids), win |-> r.win]

\* ts.visitEachChild: the visitor on every child from the i-th on, in order
visitEachChild(kids, i, win) ==
  IF i > Len(kids) THEN [kids |-> <<>>, win |-> win]
  ELSE LET r == visitor(kids[i], win)
           rest == visitEachChild(kids, i + 1, r.win)
       IN [kids |-> <<r.node>> \o rest.kids, win |-> rest.win]

MaxFiles == 2

Thrown == Node("Error", <<>>, <<>>)

\* a slip of the transformer: the file's children are visited, the file node
\* itself is not (visitEachChild(file, visitor, ctx) for visitNode(file, visitor))
transformFileEachChild(file) ==
  /\ Len(tin) < MaxFiles
  /\ tin' = Append(tin, file)
  /\ IF file.kind = "Bundle"
       THEN /\ tout' = Append(tout, Thrown)
            /\ UNCHANGED recentNodes
       ELSE /\ tout' = Append(tout, Node(file.kind, file.text,
                                         visitEachChild(file.kids, 1, recentNodes).kids))
            /\ recentNodes' = visitEachChild(file.kids, 1, recentNodes).win
  /\ UNCHANGED notTree

\* part_000:222-228: the transformer applied to one more file of the context
transformFile(file) ==
  /\ Len(tin) < MaxFiles
  /\ tin' = Append(tin, file)
  /\ IF file.kind = "Bundle"
       THEN /\ tout' = Append(tout, Thrown)
            /\ UNCHANGED recentNodes
       ELSE /\ tout' = Append(tout, visitor(file, recentNodes).node)
            /\ recentNodes' = visitor(file, recentNodes).win
  /\ UNCHANGED notTree

----------------------------------------------------------------------------
(* Inputs of the transform specification *)

ImportKeyword == Node("ImportKeyword", <<>>, <<>>)
RequireId == Node("Identifier", <<"r", "e", "q", "u", "i", "r", "e">>, <<>>)
OtherId == Node("Identifier", <<"f">>, <<>>)
Lit == StringLiteral(Foo)

ImportDecl(spec) == Node("ImportDeclaration", <<>>, <<spec>>)
ExportDecl(spec) == Node("ExportDeclaration", <<>>, <<spec>>)
ExportNoSpecifier == Node("ExportDeclaration", <<>>, <<>>)
ImportCall(args) == Node("CallExpression", <<>>, <<ImportKeyword>> \o args)
RequireCall(args) == Node("CallExpression", <<>>, <<RequireId>> \o args)
OtherCall(args) == Node("CallExpression", <<>>, <<OtherId>> \o args)
Block(kids) == Node("Block", <<>>, kids)
Span == Node("TemplateLiteralTypeSpan", <<>>, <<>>)
Mapped == Node("MappedType", <<>>, <<>>)
SourceFile(statements) == Node("SourceFile", <<>>, statements)

\* statements that open or close a file in the two-statement files
EdgeStatements ==
  {ImportDecl(Lit), RequireCall(<<Lit>>), Lit, Block(<<Span, Mapped>>), Block(<<Mapped, Lit>>)}

Statements ==
  EdgeStatements \cup
  {ExportDecl(Lit), ExportNoSpecifier, ImportCall(<<Lit>>), ImportCall(<<>>),
   ImportDecl(OtherId),
   OtherCall(<<RequireCall(<<Lit>>)>>),
   Block(<<Block(<<ImportCall(<<Lit>>)>>)>>),
   RequireCall(<<RequireCall(<<Lit>>)>>),
   ImportCall(<<OtherCall(<<RequireCall(<<Lit>>)>>)>>),
   RequireCall(<<Lit, ImportCall(<<Lit>>)>>),
   Block(<<Span, Mapped, Lit>>),
   Block(<<Span, Mapped, StringLiteral(Foo \o CJS)>>),
   Span}

TreeFiles ==
  {SourceFile(<<st>>) : st \in Statements}
    \cup {SourceFile(<<a, b>>) : a \in EdgeStatements, b \in EdgeStatements}
    \cup {SourceFile(<<Mapped, Lit>>)}
    \cup {Node("Bundle", <<>>, <<>>)}

TreeInit ==
  /\ extname \in {UNDEF, MJS}
  /\ dtsExtName = D_MTS
  /\ dirs \in {BaseDirs, BaseDirs \cup {SourceDir \o <<<<"f", "o", "o">>>>}}
  /\ resolveJsonModule = FALSE
  /\ recentNodes = <<>>
  /\ tin = <<>>
  /\ tout = <<>>
  /\ AdapterIdle
  /\ PathIdle
  /\ RewriterIdle
  /\ BuildIdle

TreeNext == \E file \in TreeFiles : transformFile(file)

TreeSpec == TreeInit /\ [][TreeNext]_vars

RECURSIVE NodeAt(_, _)
\* the node a sequence of child indices leads to
NodeAt(node, path) ==
  IF path = <<>> THEN node ELSE NodeAt(node.kids[Head(path)], Tail(path))

RECURSIVE Positions(_)
\* the positions of all nodes of a tree
Positions(node) ==
  {<<>>} \cup UNION {{<<i>> \o q : q \in Positions(node.kids[i])} : i \in 1..Len(node.kids)}

\* the child that holds the specifier of a specifier-bearing node, 0 for
\* every other node
SpecifierAt(node) ==
  IF node.kind \in {"ImportDeclaration", "ExportDeclaration"} /\ Len(node.kids) >= 1 THEN 1
  ELSE IF (isImportCall(node) \/ isRequireCall(node)) /\ Len(node.kids) >= 2 THEN 2
  ELSE 0

\* C9: after the transform every import declaration, export declaration with
\* a specifier, dynamic-import call and require call of the file, at any
\* depth and also inside the arguments of another import or require call,
\* holds updateModuleSpecifier of its literal specifier.
C9_EverySpecifierRewritten ==
  \A f \in 1..Len(tout) :
    tin[f].kind = "SourceFile" =>
      \A p \in Positions(tin[f]) :
        LET n == NodeAt(tin[f], p)
            i == SpecifierAt(n)
        IN (i # 0 /\ isStringLiteral(n.kids[i])) =>
             /\ p \in Positions(tout[f])
             /\ NodeAt(tout[f], p).kind = n.kind
             /\ NodeAt(tout[f], p).kids[i] = updateModuleSpecifier(n.kids[i])

\* what the transformer returns for a file in a fresh context
AloneOutput(file) ==
  IF file.kind = "Bundle" THEN Thrown ELSE visitor(file, <<>>).node

\* C12: the window of recently visited nodes never holds more than 3 nodes,
\* and although it is kept from one file of the context to the next, every
\* file's output is the output the transform gives that file alone with an
\* empty window: the type-position branch never fires on account of a node
\* of an earlier file.
C12_WindowDoesNotLeak ==
  /\ Len(recentNodes) <= 3
  /\ \A f \in 1..Len(tout) : tout[f] = AloneOutput(tin[f])

\* C12 witness: the first file ended with a template-literal type span and a
\* mapped type, the second file's first statement is the literal ./foo, and
\* the literal was left as it is
C12_Witness ==
  /\ Len(tout) >= 2
  /\ tin[1] = SourceFile(<<Block(<<Span, Mapped>>)>>)
  /\ tin[2] = SourceFile(<<Lit>>)
  /\ tout[2] = tin[2]
  /\ Len(tin) = 2 => recentNodes = <<"StringLiteral", "SourceFile", "MappedType">>

----------------------------------------------------------------------------
(* The build driver (worker.ts:292-319): two workers, one per target, build *)
(* the same project concurrently                                            *)

Workers == {1, 2}

TSBUILDINFO == <<".", "t", "s", "b", "u", "i", "l", "d", "i", "n", "f", "o">>

\* the project's config file, /p/tsconfig.json
ConfigPath == <<"/", "p", "/", "t", "s", "c", "o", "n", "f", "i", "g">> \o JSON_EXT

\* utils.isIncrementalCompilation
isIncrementalCompilation(options) == options.incremental

\* the path the compiler derives when options.tsBuildInfoFile is undefined:
\* the config file's name without extension, below outDir when one is set
defaultTsBuildInfoFile(path, outDir) ==
  LET basePath == trimSuffix(path, pathExtname(path))
  IN IF outDir = UNDEF THEN basePath \o TSBUILDINFO
     ELSE <<"/", "p", "/">> \o outDir \o <<"/">> \o Basename(basePath) \o TSBUILDINFO

\* config.options.tsBuildInfoFile as host.getParsedCommandLine(path) leaves
\* it for a worker with this.data = data (worker.ts:292-319)
tsBuildInfoFileOf(data, path, options) ==
  LET basePath == trimSuffix(path, pathExtname(path))
  IN IF /\ ~Falsy(data.extname)
        /\ Falsy(options.tsBuildInfoFile)
        /\ isIncrementalCompilation(options)
       THEN basePath \o data.extname \o TSBUILDINFO
       ELSE options.tsBuildInfoFile

\* the metadata file the worker's build reads and writes, UNDEF when the
\* project is not incremental
buildInfoPathOf(data, path, options) ==
  LET set == tsBuildInfoFileOf(data, path, options)
  IN IF ~Falsy(set) THEN set
     ELSE IF isIncrementalCompilation(options)
       THEN defaultTsBuildInfoFile(path, data.outDir)
     ELSE UNDEF

getParsedCommandLine(w) ==
  /\ pc[w] = "start"
  /\ pc' = [pc EXCEPT ![w] = "parsed"]
  /\ buildInfo' = [buildInfo EXCEPT ![w] = buildInfoPathOf(targets[w], ConfigPath, project)]
  /\ UNCHANGED <<targets, project, meta, readFrom, notBuild>>

\* the build reads the metadata file of its configuration, when there is one
readBuildInfo(w) ==
  /\ pc[w] = "parsed"
  /\ pc' = [pc EXCEPT ![w] = "read"]
  /\ readFrom' = [readFrom EXCEPT ![w] =
                    IF buildInfo[w] # UNDEF /\ buildInfo[w] \in DOMAIN meta
                      THEN meta[buildInfo[w]] ELSE 0]
  /\ UNCHANGED <<targets, project, buildInfo, meta, notBuild>>

\* the build writes the metadata file of its configuration
writeBuildInfo(w) ==
  /\ pc[w] = "read"
  /\ pc' = [pc EXCEPT ![w] = "written"]
  /\ meta' = IF buildInfo[w] # UNDEF THEN With(meta, buildInfo[w], w) ELSE meta
  /\ UNCHANGED <<targets, project, buildInfo, readFrom, notBuild>>

\* watch mode: a change starts the next build of the same configuration
rebuild(w) ==
  /\ pc[w] = "written"
  /\ pc' = [pc EXCEPT ![w] = "parsed"]
  /\ UNCHANGED <<targets, project, buildInfo, meta, readFrom, notBuild>>

OutDirs == {UNDEF, <<"c", "j", "s">>, <<"e", "s", "m">>}

Targets == [extname : {UNDEF, MJS, CJS}, outDir : OutDirs]

\* the project's config file names no tsBuildInfoFile of its own; the two
\* targets differ in their extension or their output directory
BuildInit ==
  /\ project \in [tsBuildInfoFile : {UNDEF}, incremental : BOOLEAN]
  /\ targets \in {t \in [Workers -> Targets] : t[1] # t[2]}
  /\ pc = [w \in Workers |-> "start"]
  /\ buildInfo = [w \in Workers |-> UNDEF]
  /\ meta = <<>>
  /\ readFrom = [w \in Workers |-> 0]
  /\ extname = UNDEF
  /\ dtsExtName = UNDEF
  /\ EnvIdle
  /\ AdapterIdle
  /\ PathIdle
  /\ RewriterIdle
  /\ TreeIdle

BuildNext ==
  \E w \in Workers :
    \/ getParsedCommandLine(w)
    \/ readBuildInfo(w)
    \/ writeBuildInfo(w)
    \/ rebuild(w)

BuildSpec == BuildInit /\ [][BuildNext]_vars

\* C6: two different targets built concurrently against the same incremental
\* project use distinct metadata paths, so no worker reads a metadata file
\* another worker wrote, and with a script extension configured the path is
\* <config-base-name><scriptExt>.tsbuildinfo.
C6_MetadataPathsDistinct ==
  project.incremental =>
    /\ (pc[1] # "start" /\ pc[2] # "start") => buildInfo[1] # buildInfo[2]
    /\ \A w \in Workers : readFrom[w] \in {0, w}
    /\ \A w \in Workers :
         (pc[w] # "start" /\ ~Falsy(targets[w].extname))
           => buildInfo[w] = <<"/", "p", "/", "t", "s", "c", "o", "n", "f", "i", "g">>
                               \o targets[w].extname \o TSBUILDINFO

====
